---- MODULE Spec2Model ----
(***************************************************************************)
(* Model of the ScienceIO NodeJS SDK (src/src/index.ts, lines 1-249):      *)
(* ScienceIO.annotate cuts the text into chunks, starts one                *)
(* _annotate_request per chunk (submit, then poll until a non-null         *)
(* response or the poll budget is spent) and awaits Promise.all of them.   *)
(* Lines 250-457 of the file repeat the class in an earlier form, without  *)
(* chunking; they are not modelled.                                        *)
(*                                                                         *)
(* Strings are sequences of one-character strings.  JavaScript's null and  *)
(* undefined are the empty sequence, a present value v is <<v>>.  Time is  *)
(* counted in seconds (the code compares milliseconds against              *)
(* MAX_POLL_DURATION_SEC * 1000).                                          *)
(***************************************************************************)
EXTENDS Integers, Sequences, FiniteSets, TLC

VARIABLES
    max_length,  \* config.MAX_CHARACTERS, scaled down
    pc,          \* where annotate stands: "idle", "chunking", "awaiting", "done"
    input,       \* the text annotate was called with
    text,        \* the local `text` of annotate: what is left to cut
    chunks,      \* the local `chunks` of annotate
    units,       \* the _annotate_request calls, one per chunk
    settled,     \* the units that have settled, in the order they settled
    now,         \* the clock, in seconds
    ret          \* the promise annotate returned

vars == <<max_length, pc, input, text, chunks, units, settled, now, ret>>

----------------------------------------------------------------------------
(* Bounds of the model *)

\* MaxTextLen: the longest text annotate is called with (Spec);
\* MaxSegTextLen: the longest text the chunking loop alone is run on (SegSpec);
\* MaxLength: the largest max_length.
MaxTextLen == 2
MaxSegTextLen == 5
MaxLength == 3

(* Program constants (config, index.ts:3-12) *)

MAX_POLL_DURATION_SEC == 300
POLL_SLEEP_DURATION_SEC == 2

----------------------------------------------------------------------------
(* JavaScript values *)

Null == <<>>
Undefined == <<>>
NoChar == "undefined"

Chars == {"a", " "}

RECURSIVE TextsOfLen(_)
TextsOfLen(n) ==
    IF n = 0 THEN {<<>>}
    ELSE {Append(t, c) : t \in TextsOfLen(n - 1), c \in Chars}

Texts == UNION {TextsOfLen(n) : n \in 0..MaxTextLen}
SegTexts == UNION {TextsOfLen(n) : n \in 0..MaxSegTextLen}

Min(a, b) == IF a < b THEN a ELSE b

(* String.prototype.slice(from, to) with 0 <= from, 0 <= to *)
Slice(s, from, to) ==
    LET e == Min(to, Len(s))
    IN  IF from >= e THEN <<>> ELSE SubSeq(s, from + 1, e)

(* String.prototype.slice(from) *)
SliceFrom(s, from) == Slice(s, from, Len(s))

(* String.prototype.lastIndexOf(' '): 0-based index, -1 when absent *)
LastIndexOf(s, c) ==
    LET hits == {k \in 1..Len(s) : s[k] = c}
    IN  IF hits = {} THEN -1
        ELSE (CHOOSE k \in hits : \A j \in hits : j <= k) - 1

(* s[k] with a 0-based index: undefined outside the string *)
CharAt(s, k) == IF k >= 0 /\ k < Len(s) THEN s[k + 1] ELSE NoChar

RECURSIVE Concat(_)
Concat(cs) == IF cs = <<>> THEN <<>> ELSE Head(cs) \o Concat(Tail(cs))

----------------------------------------------------------------------------
(* The chunking loop of annotate, one iteration (index.ts:155-170) *)

(* A window that is one character too long *)
WindowInclusive(t, m) == Slice(t, 0, m + 1)

Window(t, m) == Slice(t, 0, m)

(* The mid-word test without its check for the end of the text *)
MidWordNoEndCheck(t, m) ==
    LET spliced_text == Window(t, m)
        last_char == CharAt(spliced_text, Len(spliced_text) - 1)
        next_char == CharAt(t, Len(spliced_text))
    IN  last_char # " " /\ next_char # " "

MidWord(t, m) ==
    LET spliced_text == Window(t, m)
        last_char == CharAt(spliced_text, Len(spliced_text) - 1)
        next_char == CharAt(t, Len(spliced_text))
    IN  last_char # " " /\ next_char # " " /\ next_char # NoChar

(* A loop that always cuts at the end of the window *)
ChunkOfWindow(t, m) == Window(t, m)

ChunkOf(t, m) ==
    LET spliced_text == Window(t, m)
    IN  IF MidWord(t, m)
        THEN Slice(spliced_text, 0, LastIndexOf(spliced_text, " ") + 1)
        ELSE spliced_text

RestOfSkipWindow(t, m) == SliceFrom(t, m)

RestOf(t, m) ==
    IF MidWord(t, m)
    THEN SliceFrom(t, Len(ChunkOf(t, m)))
    ELSE SliceFrom(t, m)

----------------------------------------------------------------------------
(* Errors (index.ts:34-59).  A message that is absent, undefined or empty *)
(* is the empty string: all three are falsy in `message ? message : ...`. *)

NoError == [name |-> "none", message |-> "", status_code |-> 0]

ScienceIOError(message) ==
    [name |-> "ScienceIOError",
     message |-> IF message # "" THEN message
                 ELSE "Error in request to ScienceIO API",
     status_code |-> 0]

HTTPError(status_code, message) ==
    [name |-> "HTTPError",
     message |-> IF message # "" THEN message
                 ELSE "HTTP Error in request to ScienceIO API",
     status_code |-> status_code]

TimeoutError ==
    [name |-> "TimeoutError",
     message |-> "Timeout in request to ScienceIO API",
     status_code |-> 0]

(* The outcome of a call: a returned value or a thrown error *)
Return(v) == [thrown |-> FALSE, value |-> v, error |-> NoError]
Throw(e) == [thrown |-> TRUE, value |-> Undefined, error |-> e]

----------------------------------------------------------------------------
(* Response handling (index.ts:103-144, 227-249).  A raw response is      *)
(* [status, data], data = [request_id, inference_status,                  *)
(* inference_result, message].  The transport (axios, not part of the     *)
(* sources) is taken as the code takes it: a response of any status is    *)
(* handed to the status tests below.                                      *)

response_handler(raw_response) ==
    LET status_code == raw_response.status
    IN  IF status_code < 200 \/ status_code > 299
        THEN Throw(HTTPError(status_code, raw_response.data.message))
        ELSE Return(Undefined)

(* A submission that forgets to hand the other statuses to the handler *)
send_initial_request_unchecked(response) ==
    IF 200 < response.status /\ response.status < 300
    THEN Return(response.data.request_id)
    ELSE Return(Undefined)

send_initial_request(response) ==
    IF 200 < response.status /\ response.status < 300
    THEN Return(response.data.request_id)
    ELSE response_handler(response)

(* A payload handler that takes every status but COMPLETED and ERRORED    *)
(* for "not ready yet".                                                   *)
poll_payload_handler_lenient(payload) ==
    CASE payload.inference_status = "COMPLETED" ->
            Return(payload.inference_result)
      [] payload.inference_status = "ERRORED" ->
            Throw(ScienceIOError(payload.message))
      [] OTHER -> Return(Null)

poll_payload_handler(payload) ==
    CASE payload.inference_status = "SUBMITTED" -> Return(Null)
      [] payload.inference_status = "COMPLETED" ->
            Return(payload.inference_result)
      [] payload.inference_status = "ERRORED" ->
            Throw(ScienceIOError(payload.message))
      [] OTHER -> Throw(ScienceIOError("Unknown status"))

(* A poll attempt that takes a failed get for "not ready yet" *)
poll_attempt_retrying(response) ==
    IF 199 < response.status /\ response.status < 300
    THEN poll_payload_handler(response.data)
    ELSE Return(Null)

poll_attempt(response) ==
    IF 199 < response.status /\ response.status < 300
    THEN poll_payload_handler(response.data)
    ELSE response_handler(response)

construct_poll_url(request_id) == request_id

(* The object _annotate_request returns (index.ts:214-222) *)
scienceio_response(request_id, response) ==
    [request_id |-> request_id,
     text |-> response.text,
     inference_status |-> "COMPLETED",
     spans |-> response.spans,
     model_type |-> "structure"]

----------------------------------------------------------------------------
(* One _annotate_request per chunk (index.ts:185-223).  st is where the   *)
(* unit stands: "posting" (axios post in flight), "polling" (axios get in *)
(* flight), "fulfilled" or "rejected".  request_id and time_start are its *)
(* locals; poll_id and sent_at are the job id and the time of the get in  *)
(* flight, last_post and last_get are the answer to its post and the last *)
(* answer to a get it was resumed with; value or error is what its        *)
(* promise settled with.                                                  *)

NoData ==
    [request_id |-> Undefined, inference_status |-> "",
     inference_result |-> Null, message |-> ""]

NoResponse == [status |-> 0, data |-> NoData]

NewUnit ==
    [st |-> "posting", request_id |-> Undefined, time_start |-> 0,
     poll_id |-> Undefined, sent_at |-> 0,
     last_post |-> NoResponse, last_get |-> NoResponse,
     value |-> Null, error |-> NoError]

(* A settled unit: its locals are gone, its promise holds a value or an   *)
(* error.                                                                 *)
Fulfilled(v) == [NewUnit EXCEPT !.st = "fulfilled", !.value = <<v>>]
Rejected(e) == [NewUnit EXCEPT !.st = "rejected", !.error = e]

(* The polling loop without its time budget *)
KeepPollingNoBudget(response, elapsed) == response = Null

(* The polling loop with a budget that still allows a poll at the very   *)
(* end of it                                                              *)
KeepPollingInclusive(response, elapsed) ==
    response = Null /\ elapsed <= MAX_POLL_DURATION_SEC

(* The condition of the polling loop (index.ts:204) *)
KeepPolling(response, elapsed) ==
    response = Null /\ elapsed < MAX_POLL_DURATION_SEC

(* A polling loop that measures the budget from the start of the clock   *)
(* instead of the unit's own time_start.                                  *)
PollLoopSharedStart(u, response, t) ==
    IF KeepPolling(response, t)
    THEN [u EXCEPT !.st = "polling",
                   !.poll_id = construct_poll_url(u.request_id),
                   !.sent_at = t]
    ELSE IF response = Null
    THEN Rejected(TimeoutError)
    ELSE Fulfilled(scienceio_response(u.request_id, response[1]))

(* The polling loop from the point where `response` has just been set,    *)
(* up to the next await, throw or return (index.ts:204-222).  The         *)
(* setTimeout of line 206 schedules an empty callback and is not awaited: *)
(* the next poll is issued in the same turn.                              *)
PollLoop(u, response, t) ==
    IF KeepPolling(response, t - u.time_start)
    THEN [u EXCEPT !.st = "polling",
                   !.poll_id = construct_poll_url(u.request_id),
                   !.sent_at = t]
    ELSE IF response = Null
    THEN Rejected(TimeoutError)
    ELSE Fulfilled(scienceio_response(u.request_id, response[1]))

(* _annotate_request resumed with the response of the post *)
AfterPost(u, response, t) ==
    LET r == send_initial_request(response)
        v == IF r.thrown
             THEN Rejected(r.error)
             ELSE PollLoop([u EXCEPT !.request_id = r.value,
                                     !.time_start = t],
                           Null, t)
    IN  [v EXCEPT !.last_post = response]

(* _annotate_request resumed with the response of a get *)
AfterGet(u, response, t) ==
    LET r == poll_attempt(response)
        v == IF r.thrown THEN Rejected(r.error) ELSE PollLoop(u, r.value, t)
    IN  [v EXCEPT !.last_post = u.last_post, !.last_get = response]

----------------------------------------------------------------------------
(* The promise of annotate (index.ts:146-183) *)

Pending ==
    [state |-> "pending", returned |-> "none", value |-> <<>>,
     error |-> NoError]

(* Promise.all in completion order: a result is appended as its promise   *)
(* fulfils.                                                               *)
PromiseAllCompletionOrder(r, us, order) ==
    IF r.state # "pending" THEN r
    ELSE IF \E i \in DOMAIN us : us[i].st = "rejected"
    THEN [r EXCEPT !.state = "rejected",
                   !.error = us[CHOOSE i \in DOMAIN us :
                                    us[i].st = "rejected"].error]
    ELSE IF \A i \in DOMAIN us : us[i].st = "fulfilled"
    THEN [r EXCEPT !.state = "fulfilled", !.returned = "responses",
                   !.value = [k \in 1..Len(order) |-> us[order[k]].value[1]]]
    ELSE r

(* Promise.allSettled-like: waits for every unit and keeps the values of  *)
(* the fulfilled ones.                                                    *)
PromiseAllKeepFulfilled(r, us, order) ==
    LET RECURSIVE Vals(_)
        Vals(k) == IF k = 0 THEN <<>>
                   ELSE IF us[k].st = "fulfilled"
                        THEN Append(Vals(k - 1), us[k].value[1])
                        ELSE Vals(k - 1)
    IN  IF r.state # "pending" THEN r
        ELSE IF \A i \in DOMAIN us : us[i].st \in {"fulfilled", "rejected"}
        THEN [r EXCEPT !.state = "fulfilled", !.returned = "responses",
                       !.value = Vals(Len(us))]
        ELSE r

(* Promise.race-like: settles with the first unit that settles *)
PromiseAllFirstSettled(r, us, order) ==
    IF r.state # "pending" THEN r
    ELSE IF \E i \in DOMAIN us : us[i].st = "rejected"
    THEN [r EXCEPT !.state = "rejected",
                   !.error = us[CHOOSE i \in DOMAIN us :
                                    us[i].st = "rejected"].error]
    ELSE IF \E i \in DOMAIN us : us[i].st = "fulfilled"
    THEN [r EXCEPT !.state = "fulfilled", !.returned = "responses",
                   !.value = [k \in 1..Len(order) |-> us[order[k]].value[1]]]
    ELSE r

(* An aggregate that reports the latest fault: every rejection replaces  *)
(* the error.                                                             *)
PromiseAllLastFault(r, us, order) ==
    LET rejected == {k \in 1..Len(order) : us[order[k]].st = "rejected"}
        last == CHOOSE k \in rejected : \A j \in rejected : j <= k
    IN  IF r.state = "fulfilled" THEN r
        ELSE IF rejected # {}
        THEN [r EXCEPT !.state = "rejected", !.error = us[order[last]].error]
        ELSE IF \A i \in DOMAIN us : us[i].st = "fulfilled"
        THEN [r EXCEPT !.state = "fulfilled", !.returned = "responses",
                       !.value = [i \in DOMAIN us |-> us[i].value[1]]]
        ELSE r

(* `await Promise.all(requests)` followed by `return responses`: the      *)
(* promise of annotate after the units have become us.  It rejects with   *)
(* the error of the first unit that rejects (at most one unit changes in  *)
(* a turn, so while the promise is pending at most one unit is rejected)  *)
(* and fulfils once all units are fulfilled, the values in chunk order.   *)
PromiseAll(r, us, order) ==
    IF r.state # "pending" THEN r
    ELSE IF \E i \in DOMAIN us : us[i].st = "rejected"
    THEN [r EXCEPT !.state = "rejected",
                   !.error = us[CHOOSE i \in DOMAIN us :
                                    us[i].st = "rejected"].error]
    ELSE IF \A i \in DOMAIN us : us[i].st = "fulfilled"
    THEN [r EXCEPT !.state = "fulfilled", !.returned = "responses",
                   !.value = [i \in DOMAIN us |-> us[i].value[1]]]
    ELSE r

----------------------------------------------------------------------------
(* The service and the clock.  The service creates a job on every 2xx    *)
(* answer to a post and answers with its id; a get of a job it knows is   *)
(* answered 200 with any inference_status (a COMPLETED answer may lack    *)
(* its inference_result) or 500; a get of structure/undefined, which is   *)
(* no job, is answered 404.  The result of a job carries the text of its  *)
(* chunk.                                                                 *)

PostStatuses == {200, 201, 500}
KnownJobStatuses == {200, 500}
UnknownJobStatuses == {404}
InferenceStatuses == {"SUBMITTED", "COMPLETED", "ERRORED", "CANCELLED"}
Messages == {"", "boom"}
Instants == {0, MAX_POLL_DURATION_SEC - 1, MAX_POLL_DURATION_SEC}

Is2xx(status) == 200 <= status /\ status <= 299

(* The id the service gives the job it creates for the k-th chunk, and   *)
(* the chunk a job id stands for.                                         *)
JobId(k) == <<k>>
ChunkOfJob(id) == chunks[id[1]]

(* The answer to the post of the k-th chunk: a 2xx answer carries the id  *)
(* of the job created.                                                    *)
PostAnswer(k, status, message) ==
    [status |-> status,
     data |-> IF Is2xx(status)
              THEN [NoData EXCEPT !.request_id = JobId(k)]
              ELSE [NoData EXCEPT !.message = message]]

(* The answer to a get of the job `id` *)
GetAnswer(id, status, inference_status, message, has_result) ==
    [status |-> status,
     data |-> IF Is2xx(status)
              THEN [request_id |-> id,
                    inference_status |-> inference_status,
                    inference_result |->
                        IF has_result
                        THEN <<[text |-> ChunkOfJob(id), spans |-> "spans"]>>
                        ELSE Null,
                    message |-> message]
              ELSE [NoData EXCEPT !.message = message]]

----------------------------------------------------------------------------
(* The state machine *)

Init ==
    /\ max_length \in 1..MaxLength
    /\ pc = "idle"
    /\ input = <<>>
    /\ text = <<>>
    /\ chunks = <<>>
    /\ units = <<>>
    /\ settled = <<>>
    /\ now = 0
    /\ ret = Pending

(* annotate(t) up to its chunking loop (index.ts:146-152): the empty text *)
(* is answered by returning an error object.                              *)
annotate(t) ==
    /\ pc = "idle"
    /\ input' = t
    /\ IF Len(t) < 1
       THEN /\ pc' = "done"
            /\ ret' = [Pending EXCEPT
                          !.state = "fulfilled", !.returned = "error_object",
                          !.error = ScienceIOError(
                              "Must pass at least one character to the API")]
            /\ UNCHANGED text
       ELSE /\ pc' = "chunking"
            /\ text' = t
            /\ UNCHANGED ret
    /\ UNCHANGED <<max_length, chunks, units, settled, now>>

(* One iteration of `while (text.length > 0)` (index.ts:154-172).  A     *)
(* loop that cuts the whole text makes at most Len(input) chunks; a loop  *)
(* that has stopped advancing is followed until it has pushed one chunk   *)
(* more than that.                                                        *)
ChunkStep ==
    /\ pc = "chunking"
    /\ Len(text) > 0
    /\ Len(chunks) <= Len(input)
    /\ chunks' = Append(chunks, ChunkOf(text, max_length))
    /\ text' = RestOf(text, max_length)
    /\ UNCHANGED <<max_length, pc, input, units, settled, now, ret>>

(* The loop has ended: one _annotate_request per chunk, each running up   *)
(* to its `await` of the post, then `await Promise.all` (index.ts:174-180)*)
SubmitAll ==
    /\ pc = "chunking"
    /\ Len(text) = 0
    /\ units' = [i \in 1..Len(chunks) |-> NewUnit]
    /\ ret' = PromiseAll(ret, units', settled)
    /\ pc' = IF ret'.state = "pending" THEN "awaiting" ELSE "done"
    /\ UNCHANGED <<max_length, input, text, chunks, settled, now>>

(* A turn that, when unit i faults, also cancels the units in flight *)
ResumeCancelling(i, u) ==
    LET cancelled == {k \in DOMAIN units \ {i} :
                         /\ u.st = "rejected"
                         /\ units[k].st \in {"posting", "polling"}}
    IN  /\ units' = [k \in DOMAIN units |->
                        IF k = i THEN u
                        ELSE IF k \in cancelled THEN Rejected(u.error)
                        ELSE units[k]]
        /\ settled' = IF u.st \in {"fulfilled", "rejected"}
                      THEN Append(settled, i) ELSE settled
        /\ ret' = PromiseAll(ret, units', settled')
        /\ pc' = IF ret'.state = "pending" THEN pc ELSE "done"

(* What a turn of unit i leaves behind: the unit, the order of settling   *)
(* and the promise of annotate.                                           *)
Resume(i, u) ==
    /\ units' = [units EXCEPT ![i] = u]
    /\ settled' = IF u.st \in {"fulfilled", "rejected"}
                  THEN Append(settled, i) ELSE settled
    /\ ret' = PromiseAll(ret, units', settled')
    /\ pc' = IF ret'.state = "pending" THEN pc ELSE "done"

(* The post of unit i is answered *)
PostResponse(i) ==
    /\ i \in DOMAIN units
    /\ units[i].st = "posting"
    /\ \E status \in PostStatuses, message \in Messages :
          /\ Is2xx(status) => message = ""
          /\ Resume(i, AfterPost(units[i], PostAnswer(i, status, message),
                                 now))
    /\ UNCHANGED <<max_length, input, text, chunks, now>>

(* A get of unit i is answered *)
GetResponse(i) ==
    /\ i \in DOMAIN units
    /\ units[i].st = "polling"
    /\ \E status \in KnownJobStatuses \cup UnknownJobStatuses,
          inference_status \in InferenceStatuses \cup {""},
          message \in Messages, has_result \in BOOLEAN :
          /\ status \in IF units[i].poll_id = Undefined
                        THEN UnknownJobStatuses ELSE KnownJobStatuses
          /\ IF Is2xx(status)
             THEN /\ inference_status \in InferenceStatuses
                  /\ has_result => inference_status = "COMPLETED"
                  /\ message # "" => inference_status = "ERRORED"
             ELSE inference_status = "" /\ ~has_result /\ message = ""
          /\ Resume(i, AfterGet(units[i],
                                GetAnswer(units[i].poll_id, status,
                                          inference_status, message,
                                          has_result),
                                now))
    /\ UNCHANGED <<max_length, input, text, chunks, now>>

(* Time passes: the clock moves on to a later one of the instants the    *)
(* service is observed at.  The code reads the clock only inside          *)
(* _annotate_request, so the clock is followed only while a unit is in    *)
(* flight.                                                                *)
Tick ==
    /\ \E i \in DOMAIN units : units[i].st \in {"posting", "polling"}
    /\ \E t \in Instants : t > now /\ now' = t
    /\ UNCHANGED <<max_length, pc, input, text, chunks, units, settled, ret>>

Next ==
    \/ \E t \in Texts : annotate(t)
    \/ ChunkStep
    \/ SubmitAll
    \/ \E i \in DOMAIN units : PostResponse(i)
    \/ \E i \in DOMAIN units : GetResponse(i)
    \/ Tick

Spec == Init /\ [][Next]_vars

(* The chunking loop alone, on longer texts *)
SegNext ==
    \/ \E t \in SegTexts : annotate(t)
    \/ ChunkStep

SegSpec == Init /\ [][SegNext]_vars

----------------------------------------------------------------------------
(* Properties *)

Settled(u) == u.st \in {"fulfilled", "rejected"}

(* The chunking loop has ended on a non-empty text *)
LoopFinished == pc # "idle" /\ input # <<>> /\ text = <<>>

(* C1 - Segmentation round-trip: when the chunking loop of annotate       *)
(* finishes on a non-empty text, the chunks concatenated in order are the *)
(* text.                                                                  *)
C1_RoundTrip == LoopFinished => Concat(chunks) = input

(* A finished loop that trimmed a window back to a whitespace *)
C1_Witness ==
    /\ LoopFinished
    /\ Len(chunks) >= 2
    /\ \E i \in 1..(Len(chunks) - 1) :
          chunks[i] # <<>> /\ Len(chunks[i]) < max_length

(* C2 - Segmentation terminates: every iteration of the chunking loop     *)
(* emits a chunk and leaves strictly less text (a window without any      *)
(* whitespace is emitted whole).                                          *)
C2_TextShrinks ==
    [][(pc = "chunking" /\ chunks' # chunks) => Len(text') < Len(text)]_vars

(* C3 - Order preservation: when annotate returns the responses, there is *)
(* one per chunk and the i-th is the value of the unit of the i-th chunk, *)
(* that is the result of the job created for that chunk.                  *)
C3_ChunkOrder ==
    ret.returned = "responses" =>
        /\ Len(ret.value) = Len(chunks)
        /\ \A i \in 1..Len(chunks) :
              /\ units[i].st = "fulfilled"
              /\ ret.value[i] = units[i].value[1]
              /\ ret.value[i].request_id = JobId(i)
              /\ ret.value[i].text = chunks[i]

(* annotate has returned the responses of two jobs of which the second    *)
(* completed first                                                        *)
C3_Witness ==
    /\ ret.returned = "responses"
    /\ Len(ret.value) = 2
    /\ settled = <<2, 1>>

(* C4 - All-or-nothing: once a unit has faulted, annotate has failed, and *)
(* it returns no responses, those of the fulfilled units included.        *)
C4_AllOrNothing ==
    (\E i \in DOMAIN units : units[i].st = "rejected") =>
        /\ ret.state = "rejected"
        /\ ret.returned = "none"
        /\ ret.value = <<>>

(* annotate has failed although a unit has fulfilled *)
C4_Witness ==
    /\ ret.state = "rejected"
    /\ \E i \in DOMAIN units : units[i].st = "fulfilled"
    /\ \E i \in DOMAIN units : units[i].st = "rejected"

(* C5 - Submission succeeds on every 2xx status: a unit that is past its  *)
(* submission (the only other statuses fault it) holds the request_id of  *)
(* the answer as its job id, and polls that id.                           *)
C5_Any2xxSubmits ==
    \A i \in DOMAIN units :
        units[i].st = "polling" =>
            /\ units[i].request_id = JobId(i)
            /\ units[i].poll_id = JobId(i)

(* C6 - Polling pauses: a unit that is resumed with the answer to a get   *)
(* and issues the next get does so at least one poll interval after it    *)
(* issued the previous one.                                               *)
C6_PollsPause ==
    [][\A i \in DOMAIN units :
          (/\ i \in DOMAIN units'
           /\ units[i].st = "polling"
           /\ units'[i].st = "polling"
           /\ units'[i] # units[i])
          => units'[i].sent_at - units[i].sent_at >= POLL_SLEEP_DURATION_SEC
      ]_vars

LastStatus(u) ==
    IF Is2xx(u.last_get.status) THEN u.last_get.data.inference_status
    ELSE "none"

(* C7 - Poll timeout: a unit whose last get was answered SUBMITTED has    *)
(* issued the next get only if less than the maximum poll duration had    *)
(* elapsed since its submission; otherwise it has failed with             *)
(* TimeoutError, without a value.                                         *)
C7_PollTimeout ==
    \A i \in DOMAIN units :
        LastStatus(units[i]) = "SUBMITTED" =>
            \/ /\ units[i].st = "polling"
               /\ units[i].sent_at - units[i].time_start
                      < MAX_POLL_DURATION_SEC
            \/ /\ units[i].st = "rejected"
               /\ units[i].error = TimeoutError
               /\ units[i].value = Null
               /\ now >= MAX_POLL_DURATION_SEC

(* A unit has timed out on a SUBMITTED answer *)
C7_Witness ==
    \E i \in DOMAIN units :
        /\ LastStatus(units[i]) = "SUBMITTED"
        /\ units[i].st = "rejected"
        /\ units[i].error = TimeoutError

(* C8 - Empty input is a fault: annotate called with the empty text       *)
(* fails; it makes no chunk and no unit.                                  *)
C8_EmptyRejected ==
    (pc = "done" /\ input = <<>>) =>
        /\ ret.state = "rejected"
        /\ chunks = <<>>
        /\ units = <<>>

(* C9 - annotate waits for all units: when annotate has completed, with a *)
(* result or with a fault, every unit has settled.                        *)
C9_WaitsForAll ==
    ret.state # "pending" => \A i \in DOMAIN units : Settled(units[i])

(* C9, amended - annotate returns the responses only when every unit has  *)
(* fulfilled, and fails only when a unit has faulted (at the first fault, *)
(* whatever the other units are doing).                                   *)
C9_WaitsForSuccess ==
    /\ ret.returned = "responses" =>
          \A i \in DOMAIN units : units[i].st = "fulfilled"
    /\ ret.state = "rejected" =>
          \E i \in DOMAIN units : units[i].st = "rejected"
    /\ (units # <<>> /\ \A i \in DOMAIN units : units[i].st = "fulfilled")
          => ret.returned = "responses"

(* annotate has failed while a unit is still polling *)
C9_Witness ==
    /\ ret.state = "rejected"
    /\ \E i \in DOMAIN units : units[i].st = "polling"

(* C10 - Poll state table, for the last 2xx answer to a get of a unit:    *)
(* SUBMITTED leaves the response null (the loop polls again or times      *)
(* out), COMPLETED makes inference_result the response, ERRORED faults    *)
(* the unit with the message of the service, any other status faults it   *)
(* with "Unknown status"; a faulted unit has no get in flight.            *)
C10_PollTable ==
    \A i \in DOMAIN units :
        LET u == units[i]
            payload == u.last_get.data
            NullResponse ==
                \/ u.st = "polling"
                \/ u.st = "rejected" /\ u.error = TimeoutError
        IN  Is2xx(u.last_get.status) =>
              CASE payload.inference_status = "SUBMITTED" -> NullResponse
                [] payload.inference_status = "COMPLETED" ->
                      IF payload.inference_result = Null THEN NullResponse
                      ELSE /\ u.st = "fulfilled"
                           /\ u.value[1].text =
                                  payload.inference_result[1].text
                           /\ u.value[1].spans =
                                  payload.inference_result[1].spans
                [] payload.inference_status = "ERRORED" ->
                      /\ u.st = "rejected"
                      /\ u.error.name = "ScienceIOError"
                      /\ payload.message # "" =>
                            u.error.message = payload.message
                [] OTHER ->
                      /\ u.st = "rejected"
                      /\ u.error.name = "ScienceIOError"
                      /\ u.error.message = "Unknown status"

(* One unit was answered ERRORED with a message, another an unknown       *)
(* status                                                                 *)
C10_Witness ==
    \E i, j \in DOMAIN units :
        /\ LastStatus(units[i]) = "ERRORED"
        /\ units[i].last_get.data.message # ""
        /\ LastStatus(units[j]) = "CANCELLED"

(* The unit was resumed with the answer to its post / to a get *)
Posted(u) == u.last_post # NoResponse
Polled(u) == u.last_get # NoResponse

(* C11 - Failed submission creates no job: a unit whose post was answered *)
(* with a status outside [200,299] has failed with HTTPError carrying     *)
(* that status and the message of the body, and it never has a get in     *)
(* flight or answered.                                                    *)
C11_FailedSubmission ==
    \A i \in DOMAIN units :
        LET u == units[i]
        IN  (Posted(u) /\ ~Is2xx(u.last_post.status)) =>
              /\ u.st = "rejected"
              /\ u.error.name = "HTTPError"
              /\ u.error.status_code = u.last_post.status
              /\ u.last_post.data.message # "" =>
                    u.error.message = u.last_post.data.message
              /\ ~Polled(u)
              /\ u.poll_id = Undefined

(* A unit whose post was answered 500 with a message *)
C11_Witness ==
    \E i \in DOMAIN units :
        /\ Posted(units[i])
        /\ ~Is2xx(units[i].last_post.status)
        /\ units[i].last_post.data.message # ""
        /\ units[i].st = "rejected"

(* The position in the input at which the k-th chunk ends *)
Boundary(k) == Len(Concat(SubSeq(chunks, 1, k)))

(* The input starts with a token that is longer than max_length *)
Unsplittable(t, m) ==
    MidWord(t, m) /\ LastIndexOf(Window(t, m), " ") = -1

C13_ChunkSizeBound ==
    \A k \in 1..Len(chunks) : Len(chunks[k]) <= max_length

(* A finished loop with several chunks, one of them as long as allowed *)
C13_Witness ==
    /\ LoopFinished
    /\ max_length >= 2
    /\ Len(chunks) >= 2
    /\ \E k \in 1..Len(chunks) : Len(chunks[k]) = max_length

(* The positions in `settled` of the units that have faulted *)
Faults == {k \in 1..Len(settled) : units[settled[k]].st = "rejected"}

(* The unit that faulted first *)
FirstFault == settled[CHOOSE k \in Faults : \A j \in Faults : k <= j]

(* C14 - First failure is the one reported: once a unit has faulted,      *)
(* annotate has failed with the error of the unit that faulted first.     *)
C14_FirstFaultReported ==
    Faults # {} =>
        /\ ret.state = "rejected"
        /\ ret.error = units[FirstFault].error

(* Two units have faulted with different errors, the second chunk's unit  *)
(* first                                                                  *)
C14_Witness ==
    /\ settled = <<2, 1>>
    /\ units[1].st = "rejected"
    /\ units[2].st = "rejected"
    /\ units[1].error # units[2].error
    /\ ret.error = units[2].error

(* C15 - Transport failure during polling is fatal: a unit whose last get *)
(* was answered with a status outside [200,299] has failed with HTTPError *)
(* carrying that status and has no get in flight; a unit that polls again *)
(* was answered with a 2xx.                                               *)
C15_PollFailureFatal ==
    \A i \in DOMAIN units :
        LET u == units[i]
        IN  (Polled(u) /\ ~Is2xx(u.last_get.status)) =>
              /\ u.st = "rejected"
              /\ u.error.name = "HTTPError"
              /\ u.error.status_code = u.last_get.status

(* A unit whose get of a job it holds the id of was answered 500 *)
C15_Witness ==
    \E i \in DOMAIN units :
        /\ Is2xx(units[i].last_post.status)
        /\ units[i].last_get.status = 500
        /\ units[i].st = "rejected"

(* C16 - Poll budget is per job: a unit fails with TimeoutError only when *)
(* the maximum poll duration has elapsed since its own submission         *)
(* returned, whatever the other units do.                                 *)
C16_BudgetPerJob ==
    [][\A i \in DOMAIN units :
          (/\ i \in DOMAIN units'
           /\ units[i].st = "polling"
           /\ units'[i].st = "rejected"
           /\ units'[i].error = TimeoutError)
          => now - units[i].time_start >= MAX_POLL_DURATION_SEC
      ]_vars

(* One unit has timed out while another, submitted later, still polls     *)
(* within its own budget                                                  *)
C16_Witness ==
    \E i, j \in DOMAIN units :
        /\ units[i].st = "rejected"
        /\ units[i].error = TimeoutError
        /\ units[j].st = "polling"
        /\ units[j].time_start > 0
        /\ units[j].sent_at = now

(* C17 - Short text is one chunk: a non-empty text that is not longer    *)
(* than max_length is cut in one iteration into one chunk, the text       *)
(* itself, and one unit is started for it.                                *)
C17_ShortTextOneChunk ==
    (pc # "idle" /\ input # <<>> /\ Len(input) <= max_length) =>
        /\ chunks \in {<<>>, <<input>>}
        /\ chunks = <<>> => text = input
        /\ chunks = <<input>> => text = <<>>
        /\ pc = "chunking" => units = <<>>
        /\ pc \in {"awaiting", "done"} => Len(units) = 1 /\ chunks = <<input>>

(* The one unit of a text as long as max_length has been submitted *)
C17_Witness ==
    /\ Len(input) = max_length
    /\ max_length >= 2
    /\ chunks = <<input>>
    /\ Len(units) = 1
    /\ Posted(units[1])

(* C18 - Terminal status ends polling: a unit whose last get was answered *)
(* COMPLETED or ERRORED has no get in flight, and after COMPLETED it has  *)
(* fulfilled, whatever the payload holds.                                 *)
C18_TerminalEndsPolling ==
    \A i \in DOMAIN units :
        /\ LastStatus(units[i]) \in {"COMPLETED", "ERRORED"} =>
              units[i].st # "polling"
        /\ LastStatus(units[i]) = "COMPLETED" => units[i].st = "fulfilled"

(* C19 - No poll after the budget: the get a unit has in flight was       *)
(* issued less than the maximum poll duration after its submission        *)
(* returned.                                                              *)
C19_NoPollAfterBudget ==
    \A i \in DOMAIN units :
        units[i].st = "polling" =>
            /\ units[i].sent_at >= units[i].time_start
            /\ units[i].sent_at - units[i].time_start
                   < MAX_POLL_DURATION_SEC

(* A get issued in the last second of the budget is still in flight when  *)
(* the budget has run out                                                 *)
C19_Witness ==
    \E i \in DOMAIN units :
        /\ units[i].st = "polling"
        /\ Polled(units[i])
        /\ units[i].sent_at - units[i].time_start
               = MAX_POLL_DURATION_SEC - 1
        /\ now - units[i].time_start >= MAX_POLL_DURATION_SEC

(* C20 - No cancellation of sibling units: a unit changes only in its own *)
(* turn, while its post or get is in flight; the turn in which a unit     *)
(* settles or polls again, and the failure of annotate it may cause,      *)
(* leave every other unit as it was.                                      *)
C20_NoCancellation ==
    [][\A i \in DOMAIN units :
          (i \in DOMAIN units' /\ units'[i] # units[i]) =>
              /\ units[i].st \in {"posting", "polling"}
              /\ \A j \in DOMAIN units \ {i} : units'[j] = units[j]
      ]_vars

(* After the first unit faulted and annotate failed, the second unit went *)
(* on to poll its job to completion                                       *)
C20_Witness ==
    /\ ret.state = "rejected"
    /\ settled = <<1, 2>>
    /\ units[1].st = "rejected"
    /\ units[2].st = "fulfilled"
    /\ Polled(units[2])

====
